---- MODULE Spec2Model ----
(***************************************************************************)
(* A model of keystone_voms/core.py: the VOMS authentication middleware.   *)
(* An attempt is one call of VomsAuthNMiddleware.process_request.  Each    *)
(* call an attempt makes to the identity backend is one atomic step, so    *)
(* attempts served by parallel workers interleave between backend calls.   *)
(***************************************************************************)
EXTENDS Integers, Sequences, FiniteSets, TLC

VARIABLES
    voms_json,   \* self.voms_json: the policy table loaded by __init__
    conf,        \* CONF.voms: autocreate_users, add_roles, user_roles
    backend,     \* the identity backend: users, roles, members, grants
    environ,     \* per attempt: request.environ (REMOTE_USER, auth, cert)
    native,      \* per attempt: what the native validator answers for the cert
    pc,          \* per attempt: the backend call the attempt makes next
    handle,      \* the attempts that hold a native validation handle
    voms_info,   \* per attempt: the dictionary _get_voms_info returned
    user_ref,    \* per attempt: user_ref of _get_user
    tenant,      \* per attempt: tenant of _get_user
    role_names,  \* per attempt: role_names of _update_user_roles
    idx,         \* per attempt: position of r_name in CONF.voms.user_roles
    role,        \* per attempt: role of _update_user_roles
    exc,         \* per attempt: the exception process_request rendered
    calls,       \* per attempt: the backend and validator calls issued so far
    before,      \* per attempt: the backend, and the attempts that had ended,
                 \* when the attempt began
    fault,       \* per attempt: which of its backend calls, counted from 1,
                 \* the backend fails for a reason of its own; 0 for none
    fqan,        \* the argument of a call of _split_fqan, as a sequence of characters
    parsed       \* what that call of _split_fqan returned or raised

vars == <<voms_json, conf, backend, environ, native, pc, handle, voms_info,
          user_ref, tenant, role_names, idx, role, exc, calls, before,
          fault, fqan, parsed>>

locals == <<voms_info, user_ref, tenant, role_names, idx, role>>

-----------------------------------------------------------------------------
(* Bounds of the model. *)

\* the longest FQAN sequence a certificate carries
MaxFqans == 2
\* the longest CONF.voms.user_roles list
MaxRoles == 3
\* native-validator codes run from -OutOfRange to 21 + OutOfRange
OutOfRange == 2

Attempts == {1, 2}

None == "None"

-----------------------------------------------------------------------------
(* The values the model draws its inputs from. *)

DN1 == "/C=ES/O=CSIC/CN=alice"

VO == "dteam"
F1 == "/dteam/Role=NULL/Capability=NULL"
F2 == "/dteam/grp/Role=NULL/Capability=NULL"
F3 == "/unknown/Role=NULL/Capability=NULL"

\* the projects of the backend; this middleware never creates a project
Projects == { [id |-> 1, name |-> "T1"],
              [id |-> 2, name |-> "T2"],
              [id |-> 3, name |-> "T3"] }

\* a tenant name the policy file may name although the backend has no such project
AbsentTenant == "T0"

NoRef == [id |-> 0, name |-> ""]

SeqsUpTo(S, n) == UNION { [1..k -> S] : k \in 0..n }

-----------------------------------------------------------------------------
(* class VomsError *)

errors ==
    [c \in 0..21 |->
       CASE c = 0  -> <<"none", "None">>
         [] c = 1  -> <<"nosocket", "Socket problem">>
         [] c = 2  -> <<"noident", "Cannot identify itself (certificate problem)">>
         [] c = 3  -> <<"comm", "Server problem">>
         [] c = 4  -> <<"param", "Wrong parameters">>
         [] c = 5  -> <<"noext", "VOMS extension missing">>
         [] c = 6  -> <<"noinit", "Initialization error">>
         [] c = 7  -> <<"time", "Error in time checking">>
         [] c = 8  -> <<"idcheck", "User data in extension different from the real">>
         [] c = 9  -> <<"extrainfo", "VO name and URI missing">>
         [] c = 10 -> <<"format", "Wrong data format">>
         [] c = 11 -> <<"nodata", "Empty extension">>
         [] c = 12 -> <<"parse", "Parse error">>
         [] c = 13 -> <<"dir", "Directory error">>
         [] c = 14 -> <<"sign", "Signature error">>
         [] c = 15 -> <<"server", "Unidentifiable VOMS server">>
         [] c = 16 -> <<"mem", "Memory problems">>
         [] c = 17 -> <<"verify", "Generic verification error">>
         [] c = 18 -> <<"type", "Returned data of unknown type">>
         [] c = 19 -> <<"order", "Ordering different than required">>
         [] c = 20 -> <<"servercode", "Error from the server">>
         [] c = 21 -> <<"notavail", "Method not available">>]

\* a slip of the table: a signature error is answered as a bad request
http_codes_Sign400 ==
    [c \in {5, 11, 14} |-> <<400, "Bad Request">>]

http_codes ==
    [c \in {5, 11, 14} |->
       CASE c = 5  -> <<400, "Bad Request">>
         [] c = 11 -> <<400, "Bad Request">>
         [] c = 14 -> <<401, "Not Authorized">>]

\* dict.get(key, default)
Get(d, key, default) == IF key \in DOMAIN d THEN d[key] ELSE default

\* VomsError.__init__: the short name is read and dropped, the message keeps
\* the numeric code and the text, code and title come from http_codes
VomsError(code) ==
    LET sm == Get(errors, code, <<"oops", "Unknown error " \o ToString(code)>>)
        ct == Get(http_codes, code, <<500, "Unexpected Error">>)
    IN  [type    |-> "VomsError",
         message |-> "(" \o ToString(code) \o ", " \o sm[2] \o ")",
         code    |-> ct[1],
         title   |-> ct[2]]

\* the exceptions of keystone.exception this file raises or lets through, and
\* the error a Python NameError ends in, as process_request renders them
NoExc == [type |-> None, message |-> "", code |-> 0, title |-> ""]

KeystoneError(type) ==
    [type    |-> type,
     message |-> "",
     code    |-> CASE type = "ValidationError" -> 400
                   [] type = "Unauthorized"    -> 401
                   [] type = "UserNotFound"    -> 404
                   [] type = "Conflict"        -> 409
                   [] OTHER                    -> 500,
     title   |-> CASE type = "ValidationError" -> "Bad Request"
                   [] type = "Unauthorized"    -> "Not Authorized"
                   [] type = "UserNotFound"    -> "Not Found"
                   [] type = "Conflict"        -> "Conflict"
                   [] OTHER                    -> "Internal Server Error"]

-----------------------------------------------------------------------------
(* The identity backend (identity.Manager, assignment.Manager) as this file *)
(* uses it.  Names are unique: creating what exists answers Conflict.       *)

Max(S) == CHOOSE m \in S : \A n \in S : n <= m

\* uuid.uuid4().hex: an identifier no record carries yet
uuid4(b) == 1 + Max({0} \cup {p.id : p \in Projects}
                        \cup {u.id : u \in b.users} \cup {r.id : r \in b.roles})

get_user_by_name(b, name) ==
    IF \E u \in b.users : u.name = name
    THEN CHOOSE u \in b.users : u.name = name
    ELSE NoRef

get_project_by_name(name) ==
    IF \E p \in Projects : p.name = name
    THEN CHOOSE p \in Projects : p.name = name
    ELSE NoRef

list_projects_for_user(b, user_id) ==
    {p \in Projects : <<user_id, p.id>> \in b.members}

\* the names of the roles the user holds on the project
\* (get_roles_for_user_and_project, then get_role on each identifier)
RoleNamesOf(b, user_id, tenant_id) ==
    {r.name : r \in {q \in b.roles : <<user_id, tenant_id, q.id>> \in b.grants}}

_search_role(b, r_name) ==
    IF \E r \in b.roles : r.name = r_name
    THEN CHOOSE r \in b.roles : r.name = r_name
    ELSE NoRef

\* create_user: TRUE when the backend answers Conflict
UserExists(b, name) == \E u \in b.users : u.name = name

\* create_role: TRUE when the backend answers Conflict
RoleExists(b, name) == \E r \in b.roles : r.name = name

-----------------------------------------------------------------------------
(* _get_project_from_voms: the lookup in the policy table *)

EmptyDict == <<>>

\* a local name that no statement has assigned yet
Unbound == [unbound |-> TRUE]

\* "voinfo is not {}": the literal builds a new dictionary on every evaluation,
\* and no value is identical to a dictionary built just now
IsNotNewDict(voinfo) == TRUE

\* the for loop over user_fqans, from position i on, voinfo being the value
\* the name holds so far; the result is the value it holds after the loop
RECURSIVE FqanLoop(_, _, _, _)
FqanLoop(table, user_fqans, i, voinfo) ==
    IF i > Len(user_fqans)
    THEN voinfo
    ELSE LET v == Get(table, user_fqans[i], EmptyDict)
         IN  IF IsNotNewDict(v)
             THEN v
             ELSE FqanLoop(table, user_fqans, i + 1, v)

\* the dictionary the tenant name is read from, or Unbound when "if not voinfo"
\* reads a name the loop never assigned
Voinfo(table, info) ==
    LET v == FqanLoop(table, info.fqans, 1, Unbound)
    IN  IF v = Unbound THEN Unbound
        ELSE IF v = EmptyDict THEN Get(table, info.voname, EmptyDict)
        ELSE v

TenantName(voinfo) == Get(voinfo, "tenant", "")

-----------------------------------------------------------------------------
(* _split_fqan.  A string is a sequence of characters; "Role" and           *)
(* "Capability" stand for the letters of these words.                       *)

\* str.split(sep): the pieces of s between the occurrences of sep
RECURSIVE StrSplit(_, _)
StrSplit(s, sep) ==
    IF \A i \in 1..Len(s) : s[i] # sep
    THEN <<s>>
    ELSE LET i == CHOOSE k \in 1..Len(s) :
                     s[k] = sep /\ \A j \in 1..(k - 1) : s[j] # sep
         IN  <<SubSeq(s, 1, i - 1)>> \o StrSplit(SubSeq(s, i + 1, Len(s)), sep)

\* sep.join(l)
RECURSIVE StrJoin(_, _)
StrJoin(l, sep) ==
    IF l = <<>> THEN <<>>
    ELSE IF Len(l) = 1 THEN l[1]
    ELSE l[1] \o <<sep>> \o StrJoin(Tail(l), sep)

\* l.pop() leaves l without its last element
Popped(l) == SubSeq(l, 1, Len(l) - 1)

NotParsed == [vogroup |-> <<>>, role |-> <<>>, capability |-> <<>>, exc |-> "pending"]

\* a slip of the index: the text before the first "=" instead of after the last
_split_fqan_First(s) ==
    LET l == StrSplit(s, "/")
    IN  IF Len(l) < 2
        THEN [vogroup |-> <<>>, role |-> <<>>, capability |-> <<>>,
              exc |-> "IndexError"]
        ELSE [vogroup    |-> StrJoin(Popped(Popped(l)), "/"),
              role       |-> StrSplit(l[Len(l) - 1], "=")[1],
              capability |-> StrSplit(l[Len(l)], "=")[1],
              exc        |-> None]

\* _split_fqan: the second pop raises IndexError on a list the first emptied
_split_fqan(s) ==
    LET l == StrSplit(s, "/")
        c == StrSplit(l[Len(l)], "=")
        r == StrSplit(l[Len(l) - 1], "=")
    IN  IF Len(l) < 2
        THEN [vogroup |-> <<>>, role |-> <<>>, capability |-> <<>>,
              exc |-> "IndexError"]
        ELSE [vogroup    |-> StrJoin(Popped(Popped(l)), "/"),
              role       |-> r[Len(r)],
              capability |-> c[Len(c)],
              exc        |-> None]

\* one call of _split_fqan
SplitFqan ==
    /\ parsed = NotParsed
    /\ parsed' = _split_fqan(fqan)
    /\ UNCHANGED <<fault, fqan, voms_json, conf, backend, environ, native, pc, handle,
                   locals, exc, calls, before>>

NextFqan == SplitFqan

-----------------------------------------------------------------------------
(* Steps of an attempt *)

IsMutation(call) ==
    call \in {"create_user", "add_user_to_project", "create_role",
              "add_role_to_user_and_project"}

IsBackendCall(call) == call # "retrieve"

\* the backend calls attempt a has issued
Issued(a) == Len(SelectSeq(calls[a], IsBackendCall))

\* the next backend call of attempt a is the one the backend fails
Fails(a) == fault[a] # 0 /\ fault[a] = Issued(a) + 1

\* a call that is answered
Call(a, name) ==
    /\ IsBackendCall(name) => ~Fails(a)
    /\ calls' = [calls EXCEPT ![a] = Append(@, name)]

\* process_request: an exception is rendered, REMOTE_USER stays as it was
Raise(a, e) ==
    /\ pc' = [pc EXCEPT ![a] = "raised"]
    /\ exc' = [exc EXCEPT ![a] = e]
    /\ UNCHANGED environ

\* _get_user returns and _process_request sets REMOTE_USER
Return(a) ==
    /\ pc' = [pc EXCEPT ![a] = "done"]
    /\ environ' = [environ EXCEPT ![a].REMOTE_USER = voms_info[a].user]
    /\ UNCHANGED exc

Goto(a, label) ==
    /\ pc' = [pc EXCEPT ![a] = label]
    /\ UNCHANGED <<environ, exc>>

\* the first position from i on whose role name is not in names, 0 if none is
RECURSIVE NextRole(_, _)
NextRole(names, i) ==
    IF i > Len(conf.user_roles) THEN 0
    ELSE IF conf.user_roles[i] \in names THEN NextRole(names, i + 1)
    ELSE i

\* process_request has returned for attempt a
Ended(a) == pc[a] \in {"application", "done", "raised"}

\* _process_request up to the with statement: the upstream check,
\* is_applicable, _get_cert_chain and the acquisition of the handle
\* voms_helper.VOMS on entering the with statement: the attempt gets a handle
Acquire(a) == handle' = handle \cup {a}

\* voms_helper.VOMS on leaving the with statement: the handle is released
Release(a) == handle' = handle \ {a}

\* a slip of the test of "voms": any value of the key opts in
is_applicable_AnyValue(env) ==
    IF env.voms # "absent" THEN "True" ELSE "False"

\* is_applicable: True, False, or the ValidationError it raises
is_applicable(env) ==
    IF env.voms # "absent"
    THEN IF env.voms = "true" THEN "True" ELSE "raise"
    ELSE "False"

Begin(a) ==
    /\ pc[a] = "start"
    /\ before' = [before EXCEPT ![a] =
                     [backend |-> backend,
                      ended   |-> {b \in Attempts : Ended(b)}]]
    /\ UNCHANGED <<fault, fqan, parsed, voms_json, conf, backend, native, locals, calls>>
    /\ IF environ[a].REMOTE_USER # None
       THEN Goto(a, "application") /\ UNCHANGED handle
       ELSE IF is_applicable(environ[a]) = "False"
       THEN Goto(a, "application") /\ UNCHANGED handle
       ELSE IF is_applicable(environ[a]) = "raise"
       THEN Raise(a, KeystoneError("ValidationError")) /\ UNCHANGED handle
       ELSE IF environ[a].cert # "ok"
       THEN Raise(a, KeystoneError("ValidationError")) /\ UNCHANGED handle
       ELSE Goto(a, "retrieve") /\ Acquire(a)

\* a slip of the scope: without the with statement the raise skips the release
Retrieve_NoWith(a) ==
    /\ pc[a] = "retrieve"
    /\ Call(a, "retrieve")
    /\ UNCHANGED <<fault, fqan, parsed, voms_json, conf, backend, native, before,
                   user_ref, tenant, role_names, idx, role>>
    /\ IF ~native[a].ok
       THEN Raise(a, VomsError(native[a].error)) /\ UNCHANGED <<voms_info, handle>>
       ELSE /\ voms_info' = [voms_info EXCEPT ![a] =
                               [user   |-> native[a].user,
                                voname |-> native[a].voname,
                                fqans  |-> native[a].fqan]]
            /\ Release(a)
            /\ Goto(a, "get_user_by_name")

\* the body of the with statement of _get_voms_info and its exit
Retrieve(a) ==
    /\ pc[a] = "retrieve"
    /\ Call(a, "retrieve")
    /\ Release(a)
    /\ UNCHANGED <<fault, fqan, parsed, voms_json, conf, backend, native, before,
                   user_ref, tenant, role_names, idx, role>>
    /\ IF ~native[a].ok
       THEN Raise(a, VomsError(native[a].error)) /\ UNCHANGED voms_info
       ELSE /\ voms_info' = [voms_info EXCEPT ![a] =
                               [user   |-> native[a].user,
                                voname |-> native[a].voname,
                                fqans  |-> native[a].fqan]]
            /\ Goto(a, "get_user_by_name")

\* a slip of the except clause: the user is created whatever autocreate_users is
OnUserNotFound_Always(a) == Goto(a, "create_user")

\* _get_user: the except clause for UserNotFound
OnUserNotFound(a) ==
    IF conf.autocreate_users
    THEN Goto(a, "create_user")
    ELSE Raise(a, KeystoneError("UserNotFound"))

\* _get_user: get_user_by_name and the except clause up to the create call
GetUser(a) ==
    /\ pc[a] = "get_user_by_name"
    /\ Call(a, "get_user_by_name")
    /\ UNCHANGED <<fault, fqan, parsed, voms_json, conf, backend, native, before, handle,
                   voms_info, tenant, role_names, idx, role>>
    /\ LET u == get_user_by_name(backend, voms_info[a].user)
       IN  IF u # NoRef
           THEN /\ user_ref' = [user_ref EXCEPT ![a] = u]
                /\ Goto(a, "get_project_by_name")
           ELSE /\ UNCHANGED user_ref
                /\ OnUserNotFound(a)

\* _create_user
CreateUser(a) ==
    /\ pc[a] = "create_user"
    /\ Call(a, "create_user")
    /\ UNCHANGED <<fault, fqan, parsed, voms_json, conf, native, before, handle,
                   voms_info, tenant, role_names, idx, role>>
    /\ LET user == [id |-> uuid4(backend), name |-> voms_info[a].user]
       IN  IF UserExists(backend, user.name)
           THEN Raise(a, KeystoneError("Conflict")) /\ UNCHANGED <<backend, user_ref>>
           ELSE /\ backend' = [backend EXCEPT !.users = @ \cup {user}]
                /\ user_ref' = [user_ref EXCEPT ![a] = user]
                /\ Goto(a, "get_project_by_name")

\* a slip of the provisioning test: add_roles alone opens the provisioning
AfterTenant_OrAddRoles(a) ==
    IF conf.autocreate_users \/ conf.add_roles
    THEN Goto(a, "list_projects_for_user")
    ELSE Return(a)

\* after the tenant test of _get_user: the provisioning or the return
AfterTenant(a) ==
    IF conf.autocreate_users
    THEN Goto(a, "list_projects_for_user")
    ELSE Return(a)

\* a slip of the lookup: dict.setdefault in place of dict.get enters the VO name
Lookup_SetDefault(a) ==
    voms_json' = [k \in DOMAIN voms_json \cup {voms_info[a].voname} |->
                     Get(voms_json, k, EmptyDict)]

\* _get_project_from_voms reads self.voms_json with dict.get, which leaves it
Lookup(a) == UNCHANGED voms_json

\* _get_project_from_voms, and in _get_user the check of the requested tenant
GetProject(a) ==
    /\ pc[a] = "get_project_by_name"
    /\ Lookup(a)
    /\ UNCHANGED <<fault, fqan, parsed, conf, backend, native, before, handle,
                   voms_info, user_ref, role_names, idx, role>>
    /\ LET voinfo == Voinfo(voms_json, voms_info[a])
           t == get_project_by_name(TenantName(voinfo))
       IN  IF voinfo = Unbound
           THEN /\ Raise(a, KeystoneError("UnboundLocalError"))
                /\ UNCHANGED <<tenant, calls>>
           ELSE /\ Call(a, "get_project_by_name")
                /\ IF t = NoRef
                   THEN Raise(a, KeystoneError("Unauthorized")) /\ UNCHANGED tenant
                   ELSE /\ tenant' = [tenant EXCEPT ![a] = t]
                        /\ IF /\ environ[a].tenantName # None
                              /\ environ[a].tenantName # t.name
                           THEN Raise(a, KeystoneError("Unauthorized"))
                           ELSE AfterTenant(a)

\* a slip of the add_roles test: _update_user_roles is never called
AfterMembership_NoRoles(a) == Return(a)

\* after the membership part of _get_user: _update_user_roles or the return
AfterMembership(a) ==
    IF conf.add_roles
    THEN Goto(a, "get_roles_for_user_and_project")
    ELSE Return(a)

\* _get_user: list_projects_for_user and the membership test
ListProjects(a) ==
    /\ pc[a] = "list_projects_for_user"
    /\ Call(a, "list_projects_for_user")
    /\ UNCHANGED <<fault, fqan, parsed, voms_json, conf, backend, native, before, handle, locals>>
    /\ IF tenant[a] \notin list_projects_for_user(backend, user_ref[a].id)
       THEN Goto(a, "add_user_to_project")
       ELSE AfterMembership(a)

\* _add_user_to_tenant
AddUserToTenant(a) ==
    /\ pc[a] = "add_user_to_project"
    /\ Call(a, "add_user_to_project")
    /\ UNCHANGED <<fault, fqan, parsed, voms_json, conf, native, before, handle, locals>>
    /\ LET m == <<user_ref[a].id, tenant[a].id>>
       IN  IF m \in backend.members
           THEN Raise(a, KeystoneError("Conflict")) /\ UNCHANGED backend
           ELSE /\ backend' = [backend EXCEPT !.members = @ \cup {m}]
                /\ AfterMembership(a)

\* a slip of the loop: it ends after the first role it granted
NextMissing_OneRole(a, names, i) ==
    LET j == IF i = 1 THEN NextRole(names, i) ELSE 0
    IN  /\ idx' = [idx EXCEPT ![a] = j]
        /\ IF j = 0 THEN Return(a) ELSE Goto(a, "list_roles")

\* in the loop of _update_user_roles: on to the next missing role, or return
NextMissing(a, names, i) ==
    LET j == NextRole(names, i)
    IN  /\ idx' = [idx EXCEPT ![a] = j]
        /\ IF j = 0 THEN Return(a) ELSE Goto(a, "list_roles")

\* _update_user_roles: the roles the user holds, by name
GetRoles(a) ==
    /\ pc[a] = "get_roles_for_user_and_project"
    /\ Call(a, "get_roles_for_user_and_project")
    /\ UNCHANGED <<fault, fqan, parsed, voms_json, conf, backend, native, before, handle,
                   voms_info, user_ref, tenant, role>>
    /\ LET names == RoleNamesOf(backend, user_ref[a].id, tenant[a].id)
       IN  /\ role_names' = [role_names EXCEPT ![a] = names]
           /\ NextMissing(a, names, 1)

\* _update_user_roles: _search_role for the role name at idx
SearchRole(a) ==
    /\ pc[a] = "list_roles"
    /\ Call(a, "list_roles")
    /\ UNCHANGED <<fault, fqan, parsed, voms_json, conf, backend, native, before, handle,
                   voms_info, user_ref, tenant, role_names, idx>>
    /\ LET r == _search_role(backend, conf.user_roles[idx[a]])
       IN  /\ role' = [role EXCEPT ![a] = r]
           /\ IF r = NoRef
              THEN Goto(a, "create_role")
              ELSE Goto(a, "add_role_to_user_and_project")

\* _update_user_roles: create_role
CreateRole(a) ==
    /\ pc[a] = "create_role"
    /\ Call(a, "create_role")
    /\ UNCHANGED <<fault, fqan, parsed, voms_json, conf, native, before, handle,
                   voms_info, user_ref, tenant, role_names, idx>>
    /\ LET r == [id |-> uuid4(backend), name |-> conf.user_roles[idx[a]]]
       IN  IF RoleExists(backend, r.name)
           THEN Raise(a, KeystoneError("Conflict")) /\ UNCHANGED <<backend, role>>
           ELSE /\ backend' = [backend EXCEPT !.roles = @ \cup {r}]
                /\ role' = [role EXCEPT ![a] = r]
                /\ Goto(a, "add_role_to_user_and_project")

\* _update_user_roles: add_role_to_user_and_project, then the next r_name
AddRole(a) ==
    /\ pc[a] = "add_role_to_user_and_project"
    /\ Call(a, "add_role_to_user_and_project")
    /\ UNCHANGED <<fault, fqan, parsed, voms_json, conf, native, before, handle,
                   voms_info, user_ref, tenant, role_names, role>>
    /\ LET g == <<user_ref[a].id, tenant[a].id, role[a].id>>
       IN  IF g \in backend.grants
           THEN Raise(a, KeystoneError("Conflict")) /\ UNCHANGED <<backend, idx>>
           ELSE /\ backend' = [backend EXCEPT !.grants = @ \cup {g}]
                /\ NextMissing(a, role_names[a], idx[a] + 1)

BackendCalls ==
    {"get_user_by_name", "create_user", "get_project_by_name",
     "list_projects_for_user", "add_user_to_project",
     "get_roles_for_user_and_project", "list_roles", "create_role",
     "add_role_to_user_and_project"}

\* a slip of the error path: the failed call is issued again
BackendFails_Retry(a) ==
    /\ pc[a] \in BackendCalls
    /\ Fails(a)
    /\ pc[a] = "get_project_by_name" => Voinfo(voms_json, voms_info[a]) # Unbound
    /\ calls' = [calls EXCEPT ![a] = Append(@, pc[a])]
    /\ UNCHANGED <<fault, fqan, parsed, voms_json, conf, backend, environ, native,
                   pc, handle, locals, exc, before>>

\* a backend call fails for a reason of the backend's own: nothing in _get_user
\* or _update_user_roles catches it, process_request renders it
BackendFails(a) ==
    /\ pc[a] \in BackendCalls
    /\ Fails(a)
    /\ pc[a] = "get_project_by_name" => Voinfo(voms_json, voms_info[a]) # Unbound
    /\ calls' = [calls EXCEPT ![a] = Append(@, pc[a])]
    /\ Raise(a, KeystoneError("BackendError"))
    /\ UNCHANGED <<fault, fqan, parsed, voms_json, conf, backend, native, handle,
                   locals, before>>

Next ==
    \E a \in Attempts :
        \/ Begin(a)
        \/ Retrieve(a)
        \/ GetUser(a)
        \/ CreateUser(a)
        \/ GetProject(a)
        \/ ListProjects(a)
        \/ AddUserToTenant(a)
        \/ GetRoles(a)
        \/ SearchRole(a)
        \/ CreateRole(a)
        \/ AddRole(a)

-----------------------------------------------------------------------------
(* Initial states: the configuration, the backend and the requests *)

RoleNames == {"member", "vo_user"}

\* a user and a role the backend may hold before the first attempt
User0 == [id |-> 4, name |-> DN1]
Role0 == [id |-> 5, name |-> "member"]

\* backends in which members and grants name existing records and a role is
\* held only on a project the user is a member of
Backends ==
    {b \in [users   : SUBSET {User0},
            roles   : SUBSET {Role0},
            members : SUBSET {<<User0.id, 1>>},
            grants  : SUBSET {<<User0.id, 1, Role0.id>>}] :
        /\ b.members # {} => b.users # {}
        /\ b.grants # {} => b.members # {} /\ b.roles # {}}

EmptyBackend == [users |-> {}, roles |-> {}, members |-> {}, grants |-> {}]

Confs(roleLists) ==
    [autocreate_users : BOOLEAN, add_roles : BOOLEAN, user_roles : roleLists]

\* policy tables: a mapping of some of the keys to entries naming a tenant
Tables(keys, tenants) ==
    UNION {[ks -> [tenant : tenants]] : ks \in SUBSET keys}

\* what the native validator answers: the attributes, or an error code
Attributes(fqanLists) ==
    {[ok |-> TRUE, error |-> 0, user |-> DN1, voname |-> VO, fqan |-> f] :
        f \in fqanLists}

Failure(codes) ==
    {[ok |-> FALSE, error |-> c, user |-> "", voname |-> "", fqan |-> <<>>] :
        c \in codes}

\* a request that opts into VOMS authentication and carries a certificate
VomsRequests(tenantNames, natives) ==
    {[environ |-> [REMOTE_USER |-> None, voms |-> "true", cert |-> "ok",
                   tenantName |-> t],
      native  |-> n] : t \in tenantNames, n \in natives}

\* requests that never reach the validator: authenticated upstream, no "voms"
\* in auth, "voms" not true, no certificate, a certificate that does not parse
OtherRequests ==
    {[environ |-> e, native |-> n] :
        e \in {[REMOTE_USER |-> "upstream", voms |-> "true", cert |-> "ok",
                tenantName |-> None],
               [REMOTE_USER |-> None, voms |-> "absent", cert |-> "ok",
                tenantName |-> None],
               [REMOTE_USER |-> None, voms |-> "other", cert |-> "ok",
                tenantName |-> None],
               [REMOTE_USER |-> None, voms |-> "true", cert |-> None,
                tenantName |-> None],
               [REMOTE_USER |-> None, voms |-> "true", cert |-> "bad",
                tenantName |-> None]},
        n \in Failure({0})}

\* requests[a] is the set the request of attempt a is drawn from
InitAttempts(tables, confs, backends, requests) ==
    /\ voms_json \in tables
    /\ conf \in confs
    /\ backend \in backends
    /\ \E req \in [Attempts -> UNION {requests[a] : a \in Attempts}] :
          /\ \A a \in Attempts : req[a] \in requests[a]
          /\ environ = [a \in Attempts |-> req[a].environ]
          /\ native = [a \in Attempts |-> req[a].native]
    /\ pc = [a \in Attempts |-> "start"]
    /\ handle = {}
    /\ voms_info = [a \in Attempts |-> [user |-> "", voname |-> "", fqans |-> <<>>]]
    /\ user_ref = [a \in Attempts |-> NoRef]
    /\ tenant = [a \in Attempts |-> NoRef]
    /\ role_names = [a \in Attempts |-> {}]
    /\ idx = [a \in Attempts |-> 0]
    /\ role = [a \in Attempts |-> NoRef]
    /\ exc = [a \in Attempts |-> NoExc]
    /\ calls = [a \in Attempts |-> <<>>]
    /\ before = [a \in Attempts |-> [backend |-> backend, ended |-> {}]]

\* no call of _split_fqan: nothing in this file calls it
InitWith(tables, confs, backends, requests) ==
    /\ InitAttempts(tables, confs, backends, requests)
    /\ fault = [a \in Attempts |-> 0]
    /\ fqan = <<>>
    /\ parsed = NotParsed

\* a request answered upstream: the middleware hands it on
Upstream ==
    {r \in OtherRequests : r.environ.REMOTE_USER # None}

Codes == (0 - OutOfRange)..(21 + OutOfRange)

\* concurrent attempts for one principal
Init ==
    InitWith(Tables({F1}, {"T1", AbsentTenant}),
             Confs(SeqsUpTo({"member"}, MaxRoles)),
             Backends,
             [a \in Attempts |->
                VomsRequests({None, "T1", "T2"}, Attributes({<<F1>>}))
                   \cup VomsRequests({None}, Failure({5}))
                   \cup OtherRequests])

Spec == Init /\ [][Next]_vars

\* one attempt, every policy table over three keys and every FQAN sequence
InitResolve ==
    InitWith(Tables({F1, F2, VO}, {"T1", "T2", "T3", AbsentTenant}),
             {c \in Confs({<<"member">>}) : c.autocreate_users /\ c.add_roles},
             {EmptyBackend},
             [a \in Attempts |->
                IF a = 1
                THEN VomsRequests({None}, Attributes(SeqsUpTo({F1, F2, F3}, MaxFqans)))
                ELSE Upstream])

SpecResolve == InitResolve /\ [][Next]_vars

\* every answer of the native validator, for both attempts
InitErrors ==
    InitWith(Tables({F1}, {"T1"}),
             {c \in Confs({<<"member">>}) : c.autocreate_users /\ c.add_roles},
             {EmptyBackend},
             [a \in Attempts |->
                VomsRequests({None}, Failure(Codes) \cup Attributes({<<F1>>}))])

SpecErrors == InitErrors /\ [][Next]_vars

\* two attempts with the same request, every list of default role names
InitRoles ==
    /\ InitWith(Tables({F1}, {"T1"}),
                {c \in Confs(SeqsUpTo(RoleNames, MaxRoles)) : c.autocreate_users},
                Backends,
                [a \in Attempts |->
                   VomsRequests({None, "T1"}, Attributes({<<F1>>}))])
    /\ environ[1] = environ[2]

SpecRoles == InitRoles /\ [][Next]_vars

-----------------------------------------------------------------------------
(* What the claims speak of *)

Range(q) == {q[i] : i \in 1..Len(q)}

\* the mutating backend calls attempt a has issued, in order
Mutations(a) == SelectSeq(calls[a], IsMutation)

\* the validator returned attributes to attempt a
Validated(a) == voms_info[a].user # ""

\* _get_project_from_voms has run for attempt a
AfterResolution(a) ==
    \/ "get_project_by_name" \in Range(calls[a])
    \/ exc[a].type = "UnboundLocalError"

IsKey(k) == k \in DOMAIN voms_json

\* the positions of the FQANs of attempt a that are keys of the policy table
Matches(a) == {i \in 1..Len(voms_info[a].fqans) : IsKey(voms_info[a].fqans[i])}

\* the first FQAN of attempt a that is a key of the policy table
FirstMatch(a) ==
    voms_info[a].fqans[CHOOSE i \in Matches(a) : \A j \in Matches(a) : i <= j]

-----------------------------------------------------------------------------
(* Tenant resolution *)

\* C1: once tenant resolution has run, the tenant it looked up is the one named
\* by the entry of the first FQAN of the sequence that is a key of the policy
\* table, whatever precedes that FQAN and whatever later FQANs and the VO name
\* would match (the tenant stays unset when the backend has no such project).
C1_FirstMatchWins ==
    \A a \in Attempts :
        (AfterResolution(a) /\ Matches(a) # {})
            => tenant[a] = get_project_by_name(voms_json[FirstMatch(a)].tenant)

\* C5: when no FQAN of a validated attribute set and not its VO name is a key
\* of the policy table (also when the FQAN sequence is empty), resolution ends
\* the attempt as unauthorized, never in an internal error.
C5_NoKeyIsUnauthorized ==
    \A a \in Attempts :
        (Validated(a) /\ AfterResolution(a) /\ Matches(a) = {}
            /\ ~IsKey(voms_info[a].voname))
            => pc[a] = "raised" /\ exc[a] = KeystoneError("Unauthorized")

\* C6: when no FQAN of the sequence is a key of the policy table and the VO
\* name is one, resolution yields the tenant of the VO-name entry.
C6_FallbackToVoName ==
    \A a \in Attempts :
        (AfterResolution(a) /\ Matches(a) = {} /\ IsKey(voms_info[a].voname))
            => tenant[a] = get_project_by_name(voms_json[voms_info[a].voname].tenant)

-----------------------------------------------------------------------------
(* The order of validation, resolution and provisioning *)

\* C2: provisioning follows tenant resolution: every mutating backend call of
\* an attempt comes after its get_project_by_name, and an attempt that ends in
\* a validation failure or a resolution failure (no policy entry, or no such
\* project) has issued no mutating backend call.
C2_NoMutationBeforeResolution ==
    \A a \in Attempts :
        /\ \A i \in 1..Len(calls[a]) :
              IsMutation(calls[a][i])
                 => \E j \in 1..(i - 1) : calls[a][j] = "get_project_by_name"
        /\ ( /\ pc[a] = "raised"
             /\ \/ exc[a].type \in {"ValidationError", "VomsError"}
                \/ exc[a].type = "Unauthorized" /\ tenant[a] = NoRef )
              => Mutations(a) = <<>>

\* C4: an attempt whose requested tenant name differs from the resolved tenant
\* name ends as unauthorized and has issued no mutating backend call.
C4_MismatchNoProvisioning ==
    \A a \in Attempts :
        ( /\ tenant[a] # NoRef
          /\ environ[a].tenantName \notin {None, tenant[a].name} )
           => /\ pc[a] = "raised"
              /\ exc[a] = KeystoneError("Unauthorized")
              /\ Mutations(a) = <<>>

\* C7: with autocreate_users false, an attempt that looked up a principal the
\* backend does not hold has ended in UserNotFound, has issued no mutating
\* backend call and has left the backend as it found it.
C7_UnknownUserNoMutation ==
    \A a \in Attempts :
        ( /\ ~conf.autocreate_users
          /\ "get_user_by_name" \in Range(calls[a])
          /\ ~UserExists(backend, voms_info[a].user) )
           => /\ pc[a] = "raised"
              /\ exc[a] = KeystoneError("UserNotFound")
              /\ Mutations(a) = <<>>
              /\ backend = before[a].backend

C7_Witness ==
    \E a \in Attempts :
        /\ ~conf.autocreate_users /\ conf.add_roles /\ conf.user_roles # <<>>
        /\ "get_user_by_name" \in Range(calls[a])
        /\ ~UserExists(backend, voms_info[a].user)
        /\ exc[a].type = "UserNotFound"

\* the case Scenario E is about: attempt a is done, it found neither the
\* principal nor the one default role name in the backend when it began, and
\* no other attempt has changed the backend
ScenarioE(a) ==
    /\ conf.autocreate_users /\ conf.add_roles
    /\ Len(conf.user_roles) = 1
    /\ pc[a] = "done"
    /\ ~UserExists(before[a].backend, voms_info[a].user)
    /\ ~RoleExists(before[a].backend, conf.user_roles[1])
    /\ \A b \in Attempts \ {a} : Mutations(b) = <<>>

\* C8 as claimed: the four mutations are create the user, create the role, add
\* the membership, grant the role, in this order.
C8_RoleBeforeMembership ==
    \A a \in Attempts :
        ScenarioE(a)
           => Mutations(a) = <<"create_user", "create_role",
                               "add_user_to_project",
                               "add_role_to_user_and_project">>

\* C8: in Scenario E the attempt has issued exactly four mutating backend
\* calls, each once, in the order create the user, add the membership, create
\* the role, grant the role, and the backend holds what they created.
C8_FourMutationsInOrder ==
    \A a \in Attempts :
        ScenarioE(a)
           => /\ Mutations(a) = <<"create_user", "add_user_to_project",
                                  "create_role",
                                  "add_role_to_user_and_project">>
              /\ Cardinality(backend.users) = Cardinality(before[a].backend.users) + 1
              /\ Cardinality(backend.roles) = Cardinality(before[a].backend.roles) + 1
              /\ backend.members = before[a].backend.members
                                      \cup {<<user_ref[a].id, tenant[a].id>>}
              /\ backend.grants = before[a].backend.grants
                                     \cup {<<user_ref[a].id, tenant[a].id, role[a].id>>}

C8_Witness == \E a \in Attempts : ScenarioE(a)

-----------------------------------------------------------------------------
(* Repeated and concurrent provisioning *)

\* attempt b began when attempt a had ended, on a request equal to a's
RunAgain(a, b) ==
    /\ a \in before[b].ended
    /\ native[a] = native[b]
    /\ environ[a].tenantName = environ[b].tenantName
    /\ environ[a].voms = environ[b].voms
    /\ environ[a].cert = environ[b].cert

\* C3: when an attempt has run to its end and a second attempt with the same
\* inputs has then run to its end, the backend is as the first attempt left
\* it: the second run adds no user, membership, role or grant.
C3_SecondRunChangesNothing ==
    \A a, b \in Attempts :
        (RunAgain(a, b) /\ Ended(b)) => backend = before[b].backend

NoDuplicates(q) == \A i, j \in 1..Len(q) : q[i] = q[j] => i = j

\* every attempt is for the same principal, which the backend did not hold
\* when the attempt began
AllFirstSight ==
    \A a, b \in Attempts :
        /\ Validated(a)
        /\ voms_info[a].user = voms_info[b].user
        /\ ~UserExists(before[a].backend, voms_info[a].user)

\* C9: with autocreate_users true and the default role names pairwise
\* distinct, no attempt of two first-sight attempts for the same new principal
\* ends in the Conflict the backend answers to a create of what already exists.
C9_AlreadyExistsIsSuccess ==
    (conf.autocreate_users /\ NoDuplicates(conf.user_roles) /\ AllFirstSight)
        => \A a \in Attempts : exc[a].type # "Conflict"

-----------------------------------------------------------------------------
(* The error a validator code ends in *)

\* the kinds of the validator codes 0..21, in the order of the codes
Kinds ==
    << "None", "Socket problem",
       "Cannot identify itself (certificate problem)", "Server problem",
       "Wrong parameters", "VOMS extension missing", "Initialization error",
       "Error in time checking",
       "User data in extension different from the real",
       "VO name and URI missing", "Wrong data format", "Empty extension",
       "Parse error", "Directory error", "Signature error",
       "Unidentifiable VOMS server", "Memory problems",
       "Generic verification error", "Returned data of unknown type",
       "Ordering different than required", "Error from the server",
       "Method not available" >>

BadRequest == [code |-> 400, title |-> "Bad Request"]
Unauthorized == [code |-> 401, title |-> "Not Authorized"]
Internal == [code |-> 500, title |-> "Unexpected Error"]

\* C10: the error of a validator code c carries the code and the kind of c
\* when c is in 0..21 and the unknown kind otherwise, and its severity is
\* bad-request for 5 and 11, unauthorized for 14 and internal for the rest.
C10_KindAndSeverity ==
    \A a \in Attempts :
        (pc[a] = "raised" /\ exc[a].type = "VomsError")
           => LET c == native[a].error
                  kind == IF c \in 0..21 THEN Kinds[c + 1]
                          ELSE "Unknown error " \o ToString(c)
                  severity == IF c \in {5, 11} THEN BadRequest
                              ELSE IF c = 14 THEN Unauthorized
                              ELSE Internal
              IN  /\ exc[a].message = "(" \o ToString(c) \o ", " \o kind \o ")"
                  /\ exc[a].code = severity.code
                  /\ exc[a].title = severity.title

C10_Witness ==
    \E a, b \in Attempts :
        /\ pc[a] = "raised" /\ exc[a].type = "VomsError" /\ native[a].error = 14
        /\ pc[b] = "raised" /\ exc[b].type = "VomsError"
        /\ native[b].error \notin 0..21

-----------------------------------------------------------------------------
(* Parsing an FQAN *)

\* the longest FQAN, in segments between slashes
MaxSegments == 4

\* segments: empty, group names, well-formed and malformed role and
\* capability segments
Segments ==
    { <<>>, <<"v">>, <<"g">>,
      <<"Role", "=", "r">>, <<"Role", "=">>, <<"Role", "=", "N">>,
      <<"Capability", "=", "c">>, <<"Capability", "=", "N">>,
      <<"x", "=", "y", "=", "z">>, <<"Role">> }

Fqans ==
    {StrJoin(l, "/") : l \in UNION {[1..k -> Segments] : k \in 1..MaxSegments}}

InitFqan ==
    /\ InitAttempts({EmptyDict}, {c \in Confs({<<>>}) : ~c.autocreate_users /\ ~c.add_roles},
                    {EmptyBackend}, [a \in Attempts |-> Upstream])
    /\ fault = [a \in Attempts |-> 0]
    /\ fqan \in Fqans
    /\ parsed = NotParsed

SpecFqan == InitFqan /\ [][NextFqan]_vars

\* the positions of the slashes of s
Slashes(s) == {i \in 1..Len(s) : s[i] = "/"}

\* the text of s after its last "=", all of s when it has none
AfterLastEq(s) ==
    LET eqs == {i \in 1..Len(s) : s[i] = "="}
    IN  IF eqs = {} THEN s ELSE SubSeq(s, Max(eqs) + 1, Len(s))

NoSeparator(s) == \A i \in 1..Len(s) : s[i] \notin {"/", "="}

\* C11: for an FQAN with two slashes or more the call returns; what it returns
\* as the group path is the text before the last but one slash, so exactly the
\* last two segments are removed whatever they hold; and when these two are
\* Role=r and Capability=c, the role is r and the capability is c.
C11_SplitFqan ==
    (parsed # NotParsed /\ Cardinality(Slashes(fqan)) >= 2) =>
        LET p2 == Max(Slashes(fqan))
            p1 == Max(Slashes(fqan) \ {p2})
            x == SubSeq(fqan, p1 + 1, p2 - 1)
            y == SubSeq(fqan, p2 + 1, Len(fqan))
            r == SubSeq(x, 3, Len(x))
            c == SubSeq(y, 3, Len(y))
        IN  /\ parsed.exc = None
            /\ parsed.vogroup = SubSeq(fqan, 1, p1 - 1)
            /\ parsed.role = AfterLastEq(x)
            /\ parsed.capability = AfterLastEq(y)
            /\ (Len(x) >= 2 /\ SubSeq(x, 1, 2) = <<"Role", "=">> /\ NoSeparator(r))
                  => parsed.role = r
            /\ (Len(y) >= 2 /\ SubSeq(y, 1, 2) = <<"Capability", "=">> /\ NoSeparator(c))
                  => parsed.capability = c

\* the FQAN /v/Role=r/Capability=c has been parsed
C11_Witness ==
    /\ parsed # NotParsed
    /\ fqan = <<"/", "v", "/", "Role", "=", "r", "/", "Capability", "=", "c">>
    /\ parsed.vogroup = <<"/", "v">>
    /\ parsed.role = <<"r">>
    /\ parsed.capability = <<"c">>

-----------------------------------------------------------------------------
(* add_roles without autocreate_users *)

\* C12: with autocreate_users false, whatever add_roles says, no attempt calls
\* add_user_to_project, create_role or add_role_to_user_and_project, and the
\* memberships, roles and grants of the backend stay as an attempt found them.
C12_AddRolesNeedsAutocreate ==
    ~conf.autocreate_users =>
        \A a \in Attempts :
            /\ Range(calls[a]) \cap {"add_user_to_project", "create_role",
                                     "add_role_to_user_and_project"} = {}
            /\ pc[a] # "start" =>
                  /\ backend.members = before[a].backend.members
                  /\ backend.roles = before[a].backend.roles
                  /\ backend.grants = before[a].backend.grants

\* an attempt has succeeded with add_roles true and autocreate_users false
\* for a user who is no member of the tenant and holds no role
C12_Witness ==
    \E a \in Attempts :
        /\ pc[a] = "done"
        /\ ~conf.autocreate_users
        /\ conf.add_roles
        /\ conf.user_roles # <<>>
        /\ backend.members = {}
        /\ backend.grants = {}

-----------------------------------------------------------------------------
(* Requests the middleware does not authenticate *)

\* the request of attempt a is not one that opts in with certificate material;
\* environ changes only when an attempt succeeds
NotForVoms(a) ==
    /\ pc[a] # "done"
    /\ \/ environ[a].REMOTE_USER # None
       \/ environ[a].voms # "true"
       \/ environ[a].cert # "ok"

\* for such a request no step calls the validator or the backend or takes a
\* handle, and REMOTE_USER stays as it was
Untouched(a) ==
    /\ calls'[a] = <<>>
    /\ a \notin handle'
    /\ environ'[a] = environ[a]
    /\ voms_info'[a] = voms_info[a]

\* C13 as stated: every request that does not opt in with certificate material
\* is handed on untouched to the application, without a call of the validator
\* or of the backend and with REMOTE_USER unchanged.
C13_OthersAreNoOp ==
    [][\A a \in Attempts :
          NotForVoms(a) => Untouched(a) /\ pc'[a] \in {"start", "application"}]_vars

\* C13: the validator and the backend are called only for a request with
\* REMOTE_USER unset, "voms" true and a certificate that parses.  A request
\* authenticated upstream or without "voms" is handed on to the application;
\* one whose "voms" is not true, or whose certificate is missing or does not
\* parse, is answered with ValidationError.  In all these cases nothing is
\* called and REMOTE_USER is unchanged.
C13_OthersUntouched ==
    [][\A a \in Attempts :
          NotForVoms(a) =>
              /\ Untouched(a)
              /\ pc'[a] \in {"start", "application", "raised"}
              /\ pc'[a] = "application" <=>
                    /\ pc'[a] # "start"
                    /\ \/ environ[a].REMOTE_USER # None
                       \/ environ[a].voms = "absent"
              /\ pc'[a] = "raised" => exc'[a] = KeystoneError("ValidationError")]_vars

\* one request was handed on and another, with "voms" not true, was rejected,
\* neither with any call
C13_Witness ==
    /\ pc[1] = "application" /\ environ[1].REMOTE_USER = "upstream"
    /\ pc[2] = "raised" /\ environ[2].voms = "other"
    /\ calls[1] = <<>> /\ calls[2] = <<>>

-----------------------------------------------------------------------------
(* Backend failures *)

\* the last position a backend call of one attempt can have
MaxFault == 12

NextFaults == Next \/ \E a \in Attempts : BackendFails(a)

\* two attempts for one principal, any one backend call of each failing
InitFaults ==
    /\ InitAttempts(Tables({F1}, {"T1"}),
                    Confs({<<"member", "vo_user">>}),
                    Backends,
                    [a \in Attempts |->
                       VomsRequests({None}, Attributes({<<F1>>}))])
    /\ fault \in [Attempts -> 0..MaxFault]
    /\ fqan = <<>>
    /\ parsed = NotParsed

SpecFaults == InitFaults /\ [][NextFaults]_vars

\* attempt a has ended in the failure of a backend call
HasFailed(a) ==
    /\ pc[a] = "raised"
    /\ exc[a].type \in {"Conflict", "BackendError"}

NothingRemoved ==
    /\ backend.users \subseteq backend'.users
    /\ backend.roles \subseteq backend'.roles
    /\ backend.members \subseteq backend'.members
    /\ backend.grants \subseteq backend'.grants

\* C14: the call the backend fails is the last call of its attempt: the attempt
\* ends there in an error that is rendered (409 or 500) with REMOTE_USER unset,
\* the failing step changes nothing in the backend, afterwards the attempt
\* issues no call at all, and what had been written to the backend stays.
C14_BackendFailureAborts ==
    [][\A a \in Attempts :
          /\ (fault[a] # 0 /\ Issued(a)' >= fault[a]) =>
                 HasFailed(a)' /\ Issued(a)' = fault[a]
          /\ (~HasFailed(a) /\ HasFailed(a)') =>
                 /\ backend' = backend
                 /\ calls'[a] = Append(calls[a], pc[a])
          /\ HasFailed(a)' =>
                 /\ NothingRemoved
                 /\ environ'[a].REMOTE_USER = None
                 /\ exc'[a].code \in {409, 500}
          /\ HasFailed(a) =>
                 /\ calls'[a] = calls[a]
                 /\ pc'[a] = pc[a]
                 /\ exc'[a] = exc[a]]_vars

\* an attempt created the user, then a later call of it failed in the backend,
\* and the user is still there when both attempts have ended
C14_Witness ==
    \E a \in Attempts :
        /\ HasFailed(a)
        /\ exc[a].type = "BackendError"
        /\ fault[a] > 2
        /\ calls[a][3] = "create_user"
        /\ UserExists(backend, DN1)
        /\ \A b \in Attempts : Ended(b)

-----------------------------------------------------------------------------
(* The policy table *)

\* C15: no step of an attempt, whether it goes on, succeeds or fails, and
\* whatever the other attempt does meanwhile, changes the keys or the entries
\* of the policy table.
C15_TableReadOnly == [][voms_json' = voms_json]_vars

\* the table has an entry, one attempt has succeeded with it and the other
\* has failed after its lookup
C15_Witness ==
    \E a, b \in Attempts :
        /\ DOMAIN voms_json # {}
        /\ pc[a] = "done"
        /\ pc[b] = "raised"
        /\ "get_project_by_name" \in Range(calls[b])

-----------------------------------------------------------------------------
(* The handle of the native validator *)

\* C16: an attempt holds a handle of the native validator only between the
\* entry of the with statement of _get_voms_info and its exit: not before, not
\* after a certificate that does not parse, not after a validator error, not
\* while it resolves the tenant or provisions, and not after it has ended.
C16_HandleScoped ==
    \A a \in Attempts : a \in handle => pc[a] = "retrieve"

\* one attempt holds its handle inside the validation while the other has left
\* the validation with a validator error and holds none
C16_Witness ==
    \E a, b \in Attempts :
        /\ pc[a] = "retrieve" /\ a \in handle
        /\ pc[b] = "raised" /\ exc[b].type = "VomsError" /\ b \notin handle

-----------------------------------------------------------------------------
(* One pass of _update_user_roles *)

\* attempt a runs alone: no other attempt has begun
Alone(a) == \A b \in Attempts \ {a} : pc[b] = "start"

\* C17: in a pass of _update_user_roles that runs alone, create_role is called
\* only for a name no role of the backend has at that moment, and
\* add_role_to_user_and_project only for a role the user does not hold on the
\* tenant at that moment.
C17_CreateAndGrantOnlyWhenMissing ==
    [][\A a \in Attempts :
          (Alone(a) /\ calls'[a] # calls[a]) =>
              /\ pc[a] = "create_role" =>
                    ~RoleExists(backend, conf.user_roles[idx[a]])
              /\ pc[a] = "add_role_to_user_and_project" =>
                    <<user_ref[a].id, tenant[a].id, role[a].id>> \notin backend.grants]_vars

-----------------------------------------------------------------------------
(* Concurrent attempts for one principal *)

\* how many calls of the name the attempts have issued, all together
RECURSIVE Count(_, _)
Count(name, as) ==
    IF as = {} THEN 0
    ELSE LET a == CHOOSE x \in as : TRUE
         IN  Len(SelectSeq(calls[a], LAMBDA c : c = name)) + Count(name, as \ {a})

\* C18: whatever the interleaving of the attempts for one principal and one
\* tenant, the backend has at most one user of the principal's name and at
\* most one role of each default role name, and the attempts together issue at
\* most one create_user and at most one create_role for each name.
C18_AtMostOnce ==
    /\ \A u, v \in backend.users : u.name = v.name => u = v
    /\ \A r, s \in backend.roles : r.name = s.name => r = s
    /\ Count("create_user", Attempts) <= 1
    /\ Count("create_role", Attempts) <= Cardinality(Range(conf.user_roles))

-----------------------------------------------------------------------------
(* The identity of a successful attempt *)

\* the tenant name the policy table selects for the attributes of attempt a:
\* the entry of the first FQAN that is a key, else the entry of the VO name
Selected(a) ==
    IF Matches(a) # {} THEN voms_json[FirstMatch(a)].tenant
    ELSE IF IsKey(voms_info[a].voname) THEN voms_json[voms_info[a].voname].tenant
    ELSE ""

\* C19: the step that ends an attempt in success yields the subject of the
\* validated attributes as REMOTE_USER and the tenant the policy table selects
\* for them; that tenant is a project of the backend; a requested tenant name,
\* when given, is that tenant's name; and the request's tenantName is as it was.
C19_IdentityOfDone ==
    [][\A a \in Attempts :
          (pc[a] # "done" /\ pc'[a] = "done") =>
              /\ environ'[a].REMOTE_USER = native[a].user
              /\ tenant'[a].name = Selected(a)'
              /\ tenant'[a] \in Projects
              /\ environ[a].tenantName \notin {None, ""} =>
                    environ[a].tenantName = tenant'[a].name
              /\ environ'[a].tenantName = environ[a].tenantName]_vars

\* the same with the tenant the code's own lookup selects
C19_IdentityOfDone_AsCoded ==
    [][\A a \in Attempts :
          (pc[a] # "done" /\ pc'[a] = "done") =>
              /\ environ'[a].REMOTE_USER = native[a].user
              /\ tenant'[a].name = TenantName(Voinfo(voms_json, voms_info[a]))
              /\ tenant'[a] \in Projects
              /\ environ[a].tenantName \notin {None, ""} =>
                    environ[a].tenantName = tenant'[a].name
              /\ environ'[a].tenantName = environ[a].tenantName]_vars

-----------------------------------------------------------------------------
(* What a successful attempt leaves in the backend *)

\* C20: when an attempt has ended in success with autocreate_users true, the
\* backend has a user of the principal's name who is a member of the tenant the
\* attempt resolved, and with add_roles true that user holds on that tenant a
\* role of every name of user_roles.
C20_ProvisionedAtDone ==
    \A a \in Attempts :
        (pc[a] = "done" /\ conf.autocreate_users) =>
            \E u \in backend.users :
                /\ u.name = voms_info[a].user
                /\ <<u.id, tenant[a].id>> \in backend.members
                /\ conf.add_roles =>
                      \A i \in 1..Len(conf.user_roles) :
                          conf.user_roles[i] \in RoleNamesOf(backend, u.id, tenant[a].id)

\* an attempt that found an empty backend has succeeded with two default role
\* names to grant
C20_Witness ==
    \E a \in Attempts :
        /\ pc[a] = "done"
        /\ conf.autocreate_users /\ conf.add_roles
        /\ conf.user_roles = <<"member", "vo_user">>
        /\ before[a].backend = EmptyBackend

====
